---- MODULE Spec2Model ----
(***************************************************************************)
(* Scrape-and-normalize core of Letterboxd-Taste-Graph: URL                *)
(* canonicalization, rating extraction, mutuals, and the page crawlers     *)
(* with their bounded fetches.                                             *)
(*                                                                         *)
(* Conventions.  A Python str is a sequence of one-character strings.      *)
(* A rating is kept in tenths of a star (3.5 stars is 35), so the sentinel *)
(* -1 is -10.  Usernames are numbered; their order is the numeric order.   *)
(***************************************************************************)
EXTENDS Integers, Sequences, FiniteSets, TLC

VARIABLES
    \* -- URL canonicalization (get_user_liked_reviews.py, get_user.py)
    py_fixed,       \* whether the interpreter's urlunsplit has the gh-67693 change
    url,            \* the URL string handed to _canonicalize_url
    canon,          \* the successive results of canonicalizing it
    \* -- rating extraction (get_user_ratings.py, get_user_liked_reviews.py)
    class_list,     \* the class list handed to _parse_rating_from_class
    rating_val,     \* <<>> before the call, <<its result>> after
    response,       \* the fetched page handed to a page parser
    parsed,         \* <<>> before the parse, <<the records it returned>> after
    \* -- mutuals (get_user_mutuals.py)
    followers,      \* the followers list handed to get_mutuals
    following,      \* the following list handed to get_mutuals
    mutuals,        \* <<>> before the call, <<its result>> after
    \* -- likes feed crawl (get_all_likes_review_urls)
    site,           \* the likes feed as served: page number -> its html
    current,        \* <<>> for None, else <<the URL to fetch next>>
    seen_pages,     \* the URLs fetched or being fetched
    review_urls,    \* the review URLs collected so far
    likes_pc,       \* "loop" at the while test, "fetching" in fetch_text, "done"
                    \* at the return of the URLs, "hydrated" at the return of
                    \* get_user_liked_reviews
    likes_log,      \* the fetches that returned, in order: [page, ok]
    likes_result,   \* <<>> before the return, <<the returned list>> after
    liked_reviews,  \* <<>>, or <<[records, status]>> of get_user_liked_reviews
    \* -- one crawl session (get_all_people, get_user_ratings_enriched,
    \*    get_watchlist_data, get_user_liked_reviews)
    crawler,        \* which crawl runs
    crawl_pc,       \* "start", "page1" | "count" | "discover", "gather", "done";
                    \* get_user_profile: "page1", "reviews1", "last", "done"
    first_html,     \* what the first fetch of page 1 returned
    num_pages,      \* the page count found
    task,           \* the state of each fetch task of the gather
    issued,         \* how many GETs were issued for each page
    raised,         \* whether the crawl ended by raising
    crawl_result,   \* <<>> before the return, <<[records, status]>> after
    profile_log,    \* get_user_profile: the fetches that returned, [url, html]
    \* -- get_user_film
    username,       \* the argument
    film_pc,        \* "start", "ratings", "watchlist", "aggregate", "returned", "raised"
    started,        \* the crawls get_user_film has started
    films_data,     \* <<>> or <<what get_ratings_data returned>>
    watchlist_data, \* <<>> or <<what get_watchlist_data returned>>
    user_film,      \* <<>> before the return, <<[records, status]>> after
    \* -- get_mutuals_for_user: the two crawl sessions of its gather
    sessions,       \* kind -> [pc, num_pages, waiting, inflight] of its session
    pair_pc,        \* "gather" while the two crawls run, then "returned"
    \* -- reviews_liked_from_user
    user,           \* the argument
    module_username,\* <<>> while the module global username is unbound, else <<it>>
    feeds,          \* user -> the records get_user_liked_reviews gives for them
    counts_pc,      \* "start", "crawled", "returned", "raised"
    crawled,        \* <<>>, or <<the user whose feed was crawled>>
    liked_data,     \* <<>>, or <<[records, status]>> of get_liked_reviews_data
    liked_counts    \* <<>> before the return, <<[counts, ok]>> after

urlVars == <<py_fixed, url, canon>>
classVars == <<class_list, rating_val>>
parseVars == <<response, parsed>>
mutualVars == <<followers, following, mutuals>>
likesVars == <<site, current, seen_pages, review_urls, likes_pc, likes_log,
               likes_result, liked_reviews>>
crawlVars == <<crawler, crawl_pc, first_html, num_pages, task, issued, raised,
               crawl_result, profile_log>>
vars == <<py_fixed, url, canon, class_list, rating_val, response, parsed,
          followers, following, mutuals, site, current, seen_pages,
          review_urls, likes_pc, likes_log, likes_result, liked_reviews,
          crawler, crawl_pc,
          first_html, num_pages, task, issued, raised, crawl_result,
          profile_log, username, film_pc, started, films_data, watchlist_data, user_film,
          sessions, pair_pc, user, module_username, feeds, counts_pc, crawled,
          liked_data, liked_counts>>
pairVars == <<sessions, pair_pc>>
countVars == <<user, module_username, feeds, counts_pc, crawled, liked_data,
               liked_counts>>
filmVars == <<username, film_pc, started, films_data, watchlist_data, user_film>>

\* what each part of the model leaves alone
notUrl == <<classVars, parseVars, mutualVars, likesVars, crawlVars,
    filmVars, pairVars, countVars>>
notClass == <<urlVars, parseVars, mutualVars, likesVars, crawlVars,
    filmVars, pairVars, countVars>>
notParse == <<urlVars, classVars, mutualVars, likesVars, crawlVars,
    filmVars, pairVars, countVars>>
notMutual == <<urlVars, classVars, parseVars, likesVars, crawlVars,
    filmVars, pairVars, countVars>>
notLikes == <<urlVars, classVars, parseVars, mutualVars, crawlVars,
    filmVars, pairVars, countVars>>
notFilm == <<urlVars, classVars, parseVars, mutualVars, likesVars, crawlVars, pairVars, countVars>>
notCrawl == <<urlVars, classVars, parseVars, mutualVars, likesVars,
    filmVars, pairVars, countVars>>
notPair == <<urlVars, classVars, parseVars, mutualVars, likesVars, crawlVars,
    filmVars, countVars>>
notCount == <<urlVars, classVars, parseVars, mutualVars, likesVars, crawlVars,
    filmVars, pairVars>>

\* a part of the model that a specification does not run
UrlIdle == py_fixed = FALSE /\ url = <<>> /\ canon = <<>>
ClassIdle == class_list = <<>> /\ rating_val = <<>>
ParseIdle == response = [kind |-> "none"] /\ parsed = <<>>
MutualIdle == followers = <<>> /\ following = <<>> /\ mutuals = <<>>
LikesIdle ==
    /\ site = <<>> /\ current = <<>> /\ seen_pages = {} /\ review_urls = {}
    /\ likes_pc = "idle" /\ likes_log = <<>> /\ likes_result = <<>>
    /\ liked_reviews = <<>>

CrawlIdle ==
    /\ crawler = "none" /\ crawl_pc = "idle" /\ first_html = <<>>
    /\ num_pages = 0 /\ task = <<>> /\ issued = <<>> /\ raised = FALSE
    /\ crawl_result = <<>> /\ profile_log = <<>>

FilmIdle ==
    /\ username = <<>> /\ film_pc = "idle" /\ started = {} /\ films_data = <<>>
    /\ watchlist_data = <<>> /\ user_film = <<>>

PairIdle == sessions = <<>> /\ pair_pc = "idle"

CountIdle ==
    /\ user = <<>> /\ module_username = <<>> /\ feeds = <<>>
    /\ counts_pc = "idle" /\ crawled = <<>> /\ liked_data = <<>>
    /\ liked_counts = <<>>

\* the parts a specification does not run stay as they are
OnlyUrl == ClassIdle /\ ParseIdle /\ MutualIdle /\ LikesIdle /\ CrawlIdle /\ FilmIdle /\ PairIdle /\ CountIdle
OnlyClass == UrlIdle /\ ParseIdle /\ MutualIdle /\ LikesIdle /\ CrawlIdle /\ FilmIdle /\ PairIdle /\ CountIdle
OnlyParse == UrlIdle /\ ClassIdle /\ MutualIdle /\ LikesIdle /\ CrawlIdle /\ FilmIdle /\ PairIdle /\ CountIdle
OnlyMutual == UrlIdle /\ ClassIdle /\ ParseIdle /\ LikesIdle /\ CrawlIdle /\ FilmIdle /\ PairIdle /\ CountIdle
OnlyLikes == UrlIdle /\ ClassIdle /\ ParseIdle /\ MutualIdle /\ CrawlIdle /\ FilmIdle /\ PairIdle /\ CountIdle
OnlyFilm ==
    /\ UrlIdle /\ ClassIdle /\ ParseIdle /\ MutualIdle /\ LikesIdle /\ CrawlIdle
    /\ PairIdle /\ CountIdle
OnlyPair ==
    /\ UrlIdle /\ ClassIdle /\ ParseIdle /\ MutualIdle /\ LikesIdle /\ CrawlIdle
    /\ FilmIdle /\ CountIdle
OnlyCount ==
    /\ UrlIdle /\ ClassIdle /\ ParseIdle /\ MutualIdle /\ LikesIdle /\ CrawlIdle
    /\ FilmIdle /\ PairIdle
OnlyCrawl == UrlIdle /\ ClassIdle /\ ParseIdle /\ MutualIdle /\ LikesIdle /\ FilmIdle /\ PairIdle /\ CountIdle

----------------------------------------------------------------------------
(* Sequences as Python strings                                             *)

\* str.find(c, start): the least index >= start holding c, 0 when there is none
Find(s, c, start) ==
    IF \E i \in start..Len(s) : s[i] = c
    THEN CHOOSE i \in start..Len(s) : s[i] = c /\ \A j \in start..(i - 1) : s[j] # c
    ELSE 0

\* s[i:] with 1-based i
From(s, i) == SubSeq(s, i, Len(s))

\* s[:n]
Prefix(s, n) == SubSeq(s, 1, IF n < Len(s) THEN n ELSE Len(s))

Contains(s, c) == \E i \in 1..Len(s) : s[i] = c

Min(a, b) == IF a < b THEN a ELSE b

\* what a crawl returns: its records and its status
Returned(records, status) == <<[records |-> records, status |-> status]>>

----------------------------------------------------------------------------
(* urllib.parse as _canonicalize_url uses it                               *)

\* the characters URLs are drawn from
UrlChars == {"w", "s", ":", "/", "?", "#"}

\* urllib.parse.scheme_chars, restricted to UrlChars
scheme_chars == {"w", "s"}

\* urllib.parse.uses_netloc, restricted to the schemes UrlChars can spell
uses_netloc == {<<"w", "s">>, <<"w", "s", "s">>}

\* urllib.parse._splitnetloc(url, 2): the authority ends at the first of / ? #
Delim(rest) ==
    LET at(c) == IF Find(rest, c, 3) = 0 THEN Len(rest) + 1 ELSE Find(rest, c, 3)
    IN  Min(at("/"), Min(at("?"), at("#")))

\* urllib.parse.urlsplit
urlsplit(u) ==
    LET i == Find(u, ":", 1)
        hasScheme == /\ i > 1
                     /\ \A k \in 1..(i - 1) : u[k] \in scheme_chars
        scheme == IF hasScheme THEN SubSeq(u, 1, i - 1) ELSE <<>>
        r1 == IF hasScheme THEN From(u, i + 1) ELSE u
        hasNetloc == Prefix(r1, 2) = <<"/", "/">>
        netloc == IF hasNetloc THEN SubSeq(r1, 3, Delim(r1) - 1) ELSE <<>>
        r2 == IF hasNetloc THEN From(r1, Delim(r1)) ELSE r1
        h == Find(r2, "#", 1)
        fragment == IF h > 0 THEN From(r2, h + 1) ELSE <<>>
        r3 == IF h > 0 THEN SubSeq(r2, 1, h - 1) ELSE r2
        q == Find(r3, "?", 1)
        query == IF q > 0 THEN From(r3, q + 1) ELSE <<>>
        path == IF q > 0 THEN SubSeq(r3, 1, q - 1) ELSE r3
    IN  [scheme |-> scheme, netloc |-> netloc, path |-> path,
         query |-> query, fragment |-> fragment]

\* urllib.parse.urlunsplit up to Python 3.12.3
urlunsplit_old(p) ==
    LET withNetloc ==
            \/ p.netloc # <<>>
            \/ /\ p.scheme # <<>>
               /\ p.scheme \in uses_netloc
               /\ Prefix(p.path, 2) # <<"/", "/">>
        slashed == IF p.path # <<>> /\ Prefix(p.path, 1) # <<"/">>
                   THEN <<"/">> \o p.path ELSE p.path
        u1 == IF withNetloc THEN <<"/", "/">> \o p.netloc \o slashed ELSE p.path
        u2 == IF p.scheme # <<>> THEN p.scheme \o <<":">> \o u1 ELSE u1
        u3 == IF p.query # <<>> THEN u2 \o <<"?">> \o p.query ELSE u2
    IN  IF p.fragment # <<>> THEN u3 \o <<"#">> \o p.fragment ELSE u3

\* urllib.parse.urlunsplit from Python 3.12.4 on (gh-67693)
urlunsplit_new(p) ==
    LET slashed == IF p.path # <<>> /\ Prefix(p.path, 1) # <<"/">>
                   THEN <<"/">> \o p.path ELSE p.path
        u1 == IF p.netloc # <<>>
              THEN <<"/", "/">> \o p.netloc \o slashed
              ELSE IF Prefix(p.path, 2) = <<"/", "/">>
              THEN <<"/", "/">> \o p.path
              ELSE IF /\ p.scheme # <<>>
                      /\ p.scheme \in uses_netloc
                      /\ (p.path = <<>> \/ Prefix(p.path, 1) = <<"/">>)
              THEN <<"/", "/">> \o p.path
              ELSE p.path
        u2 == IF p.scheme # <<>> THEN p.scheme \o <<":">> \o u1 ELSE u1
        u3 == IF p.query # <<>> THEN u2 \o <<"?">> \o p.query ELSE u2
    IN  IF p.fragment # <<>> THEN u3 \o <<"#">> \o p.fragment ELSE u3

urlunsplit(p, fixed) == IF fixed THEN urlunsplit_new(p) ELSE urlunsplit_old(p)

----------------------------------------------------------------------------
(* _canonicalize_url                                                       *)

\* a canonicalizer that forgets to blank the query
KeepQuery_canonicalize_url(u, fixed) ==
    IF u = <<>> THEN u
    ELSE LET parts == urlsplit(u)
         IN  urlunsplit([parts EXCEPT !.fragment = <<>>], fixed)

_canonicalize_url(u, fixed) ==
    IF u = <<>> THEN u
    ELSE LET parts == urlsplit(u)
         IN  urlunsplit([scheme |-> parts.scheme, netloc |-> parts.netloc,
                         path |-> parts.path, query |-> <<>>,
                         fragment |-> <<>>], fixed)

\* longest URL string tried
MaxUrlLen == 5

\* times a result is canonicalized again
MaxCanon == 2

RECURSIVE Strings(_, _)
Strings(S, n) ==
    IF n = 0 THEN {<<>>}
    ELSE LET shorter == Strings(S, n - 1)
         IN  shorter \cup {Append(s, c) : s \in {t \in shorter : Len(t) = n - 1}, c \in S}

Urls == Strings(UrlChars, MaxUrlLen)

UrlInit ==
    /\ py_fixed \in BOOLEAN
    /\ url \in Urls
    /\ canon = <<>>
    /\ OnlyUrl

\* canonicalize the input, then canonicalize the result again
Canonicalize ==
    /\ Len(canon) < MaxCanon
    /\ canon' = Append(canon, _canonicalize_url(
                    IF canon = <<>> THEN url ELSE canon[Len(canon)], py_fixed))
    /\ UNCHANGED <<py_fixed, url, notUrl>>

UrlNext == Canonicalize

SpecUrl == UrlInit /\ [][UrlNext]_vars

\* C8: URL canonicalization is idempotent: canonicalizing a canonicalized URL
\* returns it unchanged, for every URL string.
C8_Idempotent ==
    Len(canon) >= 2 => canon[2] = canon[1]

\* C9 as stated: for a non-empty input, absolute or relative, the result
\* consists of scheme + authority + path only (the relative reference having
\* been resolved against the base origin); an empty input is returned unchanged.
C9_SchemeAuthorityPath ==
    Len(canon) >= 1 =>
        IF url = <<>> THEN canon[1] = url
        ELSE LET r == urlsplit(canon[1])
             IN  /\ r.scheme # <<>>
                 /\ r.netloc # <<>>
                 /\ r.query = <<>>
                 /\ r.fragment = <<>>

\* C9 amended: _canonicalize_url drops the query string and the fragment and
\* keeps the scheme, and the authority and path of an input that has an
\* authority; it resolves nothing, so it supplies no scheme to a relative
\* input; an empty input is returned unchanged.
C9_DropsQueryAndFragment ==
    Len(canon) >= 1 =>
        LET p == urlsplit(url)
            r == urlsplit(canon[1])
        IN  /\ url = <<>> => canon[1] = url
            /\ ~Contains(canon[1], "?")
            /\ ~Contains(canon[1], "#")
            /\ r.scheme = p.scheme
            /\ p.netloc # <<>> => r.netloc = p.netloc /\ r.path = p.path

\* a relative URL with a path and a query has been canonicalized
C9_Witness ==
    /\ Len(canon) >= 1
    /\ urlsplit(url).scheme = <<>>
    /\ urlsplit(url).netloc = <<>>
    /\ urlsplit(url).path # <<>>
    /\ urlsplit(url).query # <<>>

----------------------------------------------------------------------------
(* Rating extraction                                                       *)

\* the sentinel -1 (rating missing or unparseable), in tenths of a star
NoRating == -10

\* A CSS class: stem, then, when dash, "-" and a suffix that int() accepts
\* (isInt, its value n) or rejects.
rating_class == [stem |-> "rating", dash |-> FALSE, isInt |-> FALSE, n |-> 0]
rated(n) == [stem |-> "rated", dash |-> TRUE, isInt |-> TRUE, n |-> n]
rated_x == [stem |-> "rated", dash |-> TRUE, isInt |-> FALSE, n |-> 0]
unrated(n) == [stem |-> "unrated", dash |-> TRUE, isInt |-> TRUE, n |-> n]

\* c.startswith("rated-")
StartsWithRated(c) == c.stem = "rated" /\ c.dash

\* the selector [class*='rated-']: the substring anywhere in the attribute
HasRatedSubstring(classes) ==
    \E i \in 1..Len(classes) :
        classes[i].dash /\ classes[i].stem \in {"rated", "unrated"}

\* a rule that forgets the multiple-of-5 test
AnyStep_parse_rating_from_class(classes) ==
    LET hits == {i \in 1..Len(classes) : StartsWithRated(classes[i])}
    IN  IF hits = {} THEN NoRating
        ELSE LET c == classes[CHOOSE i \in hits : \A j \in hits : i <= j]
             IN  IF ~c.isInt THEN NoRating
                 ELSE IF c.n < 5 \/ c.n > 50 THEN NoRating
                 ELSE c.n

\* _parse_rating_from_class: the first class starting with "rated-" decides;
\* n / 10 stars is n tenths
_parse_rating_from_class(classes) ==
    LET hits == {i \in 1..Len(classes) : StartsWithRated(classes[i])}
    IN  IF hits = {} THEN NoRating
        ELSE LET c == classes[CHOOSE i \in hits : \A j \in hits : i <= j]
             IN  IF ~c.isInt THEN NoRating
                 ELSE IF c.n < 5 \/ c.n > 50 \/ c.n % 5 # 0 THEN NoRating
                 ELSE c.n

\* _parse_rating_text reads two things of a text: how many star glyphs it
\* holds and whether it holds the half glyph; a text is [stars, half]
_parse_rating_text(text) ==
    IF text.stars = 0 THEN NoRating
    ELSE 10 * text.stars + (IF text.half THEN 5 ELSE 0)

\* _normalize_possible_fraction: a value in [0, 1] is multiplied by 5
_normalize_possible_fraction(val) ==
    IF 0 <= val /\ val <= 10 THEN val * 5 ELSE val

\* largest integer suffix of a rated- class
MaxRatedN == 55

\* longest class list
MaxClasses == 2

\* most star glyphs in a text
MaxStars == 6

Classes ==
    {rating_class, rated_x, unrated(35), rated(-5)} \cup {rated(n) : n \in 0..MaxRatedN}

ClassLists == Strings(Classes, MaxClasses)

Texts == [stars : 0..MaxStars, half : BOOLEAN]

ClassInit ==
    /\ class_list \in ClassLists
    /\ rating_val = <<>>
    /\ OnlyClass

ParseRatingFromClass ==
    /\ rating_val = <<>>
    /\ rating_val' = <<_parse_rating_from_class(class_list)>>
    /\ UNCHANGED <<class_list, notClass>>

ClassNext == ParseRatingFromClass

SpecRatingClass == ClassInit /\ [][ClassNext]_vars

\* C7: _parse_rating_from_class returns N/10 for the class rated-N when
\* 5 <= N <= 50 and N is a multiple of 5, and -1 when N is out of range, not a
\* multiple of 5, not an integer, or no class starts with "rated-"; the result
\* is always -1 or in [0.5, 5.0].  (The class meant is the first one starting
\* with "rated-".)
C7_RatingFromClass ==
    rating_val # <<>> =>
        LET hits == {i \in 1..Len(class_list) : StartsWithRated(class_list[i])}
            r == rating_val[1]
        IN  /\ hits = {} => r = NoRating
            /\ \A i \in hits :
                 (\A j \in hits : i <= j) =>
                    LET c == class_list[i]
                    IN  IF c.isInt /\ c.n \in {5 * k : k \in 1..10}
                        THEN r = c.n
                        ELSE r = NoRating
            /\ r = NoRating \/ (5 <= r /\ r <= 50)

\* the class list [rating, rated-35] was parsed, to 3.5 stars
C7_Witness ==
    /\ rating_val # <<>>
    /\ Len(class_list) = 2
    /\ class_list[1] = rating_class
    /\ class_list[2] = rated(35)
    /\ rating_val[1] = 35

----------------------------------------------------------------------------
(* Page parsers: parse_ratings_page and parse_review_detail                *)

\* soup.select_one("span.rating[class*='rated-']") over the span.rating
\* elements in document order: <<>> for None, else <<the element>>
SelectRatedSpan(spans) ==
    LET hits == {i \in 1..Len(spans) : HasRatedSubstring(spans[i].classes)}
    IN  IF hits = {} THEN <<>>
        ELSE <<spans[CHOOSE i \in hits : \A j \in hits : i <= j]>>

\* soup.select_one("span.rating")
SelectSpan(spans) == IF spans = <<>> THEN <<>> ELSE <<spans[1]>>

\* One tile of the ratings feed.  poster: the LazyPoster component is there;
\* item_slug, film_slug: its data-item-slug and data-film-slug ("" when
\* missing or empty); spans: its span.rating elements; vd: the text of its
\* .poster-viewingdata element (<<>> when there is none); liked: which of
\* the three liked markers it carries.  display_name is not modelled.
ParseTile(tile) ==
    IF ~tile.poster THEN <<>>
    ELSE
    LET movie_id == IF tile.item_slug # "" THEN tile.item_slug ELSE tile.film_slug
        rated_el == SelectRatedSpan(tile.spans)
        rating_el == IF rated_el # <<>> THEN rated_el ELSE SelectSpan(tile.spans)
        from_class == IF rating_el # <<>>
                      THEN _parse_rating_from_class(rating_el[1].classes)
                      ELSE NoRating
        from_el == IF rating_el # <<>> /\ from_class = NoRating
                   THEN _parse_rating_text(rating_el[1].text)
                   ELSE from_class
        from_vd == IF from_el = NoRating /\ tile.vd # <<>>
                   THEN _parse_rating_text(tile.vd[1])
                   ELSE from_el
    IN  IF movie_id = "" THEN <<>>
        ELSE <<[movie_id |-> movie_id,
                rating_val |-> _normalize_possible_fraction(from_vd),
                liked |-> tile.liked # {}]>>

RECURSIVE ParseTiles(_)
ParseTiles(tiles) ==
    IF tiles = <<>> THEN <<>>
    ELSE ParseTile(Head(tiles)) \o ParseTiles(Tail(tiles))

\* parse_ratings_page
parse_ratings_page(resp) ==
    IF ~resp.html THEN <<>> ELSE ParseTiles(resp.tiles)

\* the URL returned as it came, query string included
Whole_url(u) == u

\* A URL of the crawl, by path segments: [path, query], query telling
\* whether a query string or fragment follows the path.
CanonUrl(u) == [u EXCEPT !.query = FALSE]

\* no URL taken for a likes page
Never_likes_url(u) == FALSE

\* _is_likes_url: the path, trailing slashes stripped, ends with "/likes"
_is_likes_url(u) == u.path # <<>> /\ u.path[Len(u.path)] = "likes"

_RESERVED_USER_PATHS ==
    {"film", "films", "review", "reviews", "likes", "activity", "journal",
     "search", "lists", "members", "about", "contact", "settings", "sign-in",
     "sign-up", "login", "logout"}

\* _reviewer_from_review_url: the segment before the first "film" segment
\* that a slug follows
_reviewer_from_review_url(u) ==
    LET hits == {i \in 1..(Len(u.path) - 2) : u.path[i + 1] = "film"}
    IN  IF hits = {} THEN "unknown"
        ELSE LET reviewer == u.path[CHOOSE i \in hits : \A j \in hits : i <= j]
             IN  IF reviewer \in _RESERVED_USER_PATHS THEN "unknown" ELSE reviewer

\* parse_review_detail: <<>> for None, else <<the record>>.  The film title
\* is not modelled.
parse_review_detail(resp) ==
    IF ~resp.html THEN <<>>
    ELSE
    LET u == CanonUrl(resp.url)
        rated_el == SelectRatedSpan(resp.spans)
        from_class == IF rated_el # <<>>
                      THEN _parse_rating_from_class(rated_el[1].classes)
                      ELSE NoRating
        first_el == SelectSpan(resp.spans)
        rating == IF from_class = NoRating /\ first_el # <<>>
                  THEN _parse_rating_text(first_el[1].text)
                  ELSE from_class
    IN  IF _is_likes_url(u) THEN <<>>
        ELSE <<[reviewer |-> _reviewer_from_review_url(u),
                rating_val |-> rating,
                review_url |-> u]>>

\* the integer suffixes of the rated- classes tiles carry
TileRatedNs == {0, 3, 7, 52} \cup {5 * k : k \in 1..10}

TileClassLists ==
    {<<rating_class>>}
        \cup {<<rating_class, c>> : c \in {rated_x, unrated(35)} \cup {rated(n) : n \in TileRatedNs}}

Spans == [classes : TileClassLists, text : Texts]

\* the elements that pages with two span.rating elements are built from
FixtureSpans ==
    {[classes |-> <<rating_class>>, text |-> [stars |-> 4, half |-> FALSE]],
     [classes |-> <<rating_class, rated(35)>>, text |-> [stars |-> 0, half |-> FALSE]],
     [classes |-> <<rating_class, rated(7)>>, text |-> [stars |-> 2, half |-> TRUE]]}

SpanLists ==
    {<<>>} \cup {<<e>> : e \in Spans} \cup {<<a, b>> : a, b \in FixtureSpans}

LikedMarkers == {".liked", "span.like", ".icon-liked"}

Tiles ==
    [poster : {TRUE}, item_slug : {"", "heat"}, film_slug : {"", "ran"},
     spans : SpanLists, vd : {<<>>} \cup {<<t>> : t \in Texts},
     liked : SUBSET LikedMarkers]
        \cup [poster : {FALSE}, item_slug : {""}, film_slug : {""},
              spans : {<<>>}, vd : {<<>>}, liked : {{}}]

\* the two tiles of the listing fixture: rated-35 and liked, unrated and not
FixtureTiles ==
    {[poster |-> TRUE, item_slug |-> "heat", film_slug |-> "", vd |-> <<>>,
      spans |-> <<[classes |-> <<rating_class, rated(35)>>,
                   text |-> [stars |-> 3, half |-> TRUE]]>>,
      liked |-> {"span.like"}],
     [poster |-> TRUE, item_slug |-> "ran", film_slug |-> "", vd |-> <<>>,
      spans |-> <<>>, liked |-> {}]}

RatingsResponses ==
    {[kind |-> "ratings", html |-> FALSE, tiles |-> <<>>]}
        \cup {[kind |-> "ratings", html |-> TRUE, tiles |-> ts] :
                ts \in {<<>>} \cup {<<t>> : t \in Tiles}
                        \cup {<<a, b>> : a, b \in FixtureTiles}}

ReviewUrls ==
    {[path |-> <<r, "film", "heat">> \o t, query |-> q] :
        r \in {"alice", "likes"}, t \in {<<>>, <<"likes">>}, q \in BOOLEAN}

ReviewResponses ==
    {[kind |-> "review", html |-> h, url |-> u, spans |-> sp] :
        h \in BOOLEAN, u \in ReviewUrls, sp \in SpanLists}

\* -- the watchlist page parser (get_user_watchlist.py) --
\* An attribute value or href is a sequence of the pieces "/", "film" and
\* "heat"; <<>> is a missing or empty attribute, and None.
MaxVal == 4
Pieces == {"/", "film", "heat"}
Vals == Strings(Pieces, MaxVal)

\* val.startswith("/film/")
startswith_film(val) == Len(val) >= 3 /\ SubSeq(val, 1, 3) = <<"/", "film", "/">>

\* val.strip("/")
strip_slashes(val) ==
    LET keep == {i \in 1..Len(val) : val[i] # "/"}
    IN  IF keep = {} THEN <<>>
        ELSE SubSeq(val, CHOOSE i \in keep : \A j \in keep : i <= j,
                         CHOOSE i \in keep : \A j \in keep : j <= i)

\* val.split("/")
RECURSIVE split_slashes(_)
split_slashes(val) ==
    LET i == Find(val, "/", 1)
    IN  IF i = 0 THEN <<val>>
        ELSE <<SubSeq(val, 1, i - 1)>> \o split_slashes(From(val, i + 1))

\* parts = val.strip("/").split("/"); parts[1] when there are two parts and
\* the first is "film", else what slug was
slug_of_path(val, slug) ==
    LET parts == split_slashes(strip_slashes(val))
    IN  IF Len(parts) >= 2 /\ parts[1] = <<"film">> THEN parts[2] ELSE slug

\* the loop over data-item-slug, data-film-slug, data-target-link
RECURSIVE slug_from_attrs(_, _)
slug_from_attrs(vals, slug) ==
    IF vals = <<>> THEN slug
    ELSE IF Head(vals) = <<>> THEN slug_from_attrs(Tail(vals), slug)
    ELSE LET found == IF startswith_film(Head(vals))
                      THEN slug_of_path(Head(vals), slug)
                      ELSE Head(vals)
         IN  IF found # <<>> THEN found ELSE slug_from_attrs(Tail(vals), found)

\* _extract_slug_and_title.  rc: the tile has a div.react-component; anchor:
\* <<>> or <<the href of its first a[href^="/film/"]>>; rc_title, img_alt,
\* a_title: the title its component, its img and its a[title] give
_extract_slug_and_title(tile) ==
    LET from_rc == IF tile.rc
                   THEN slug_from_attrs(<<tile.item_slug, tile.film_slug,
                                          tile.target_link>>, <<>>)
                   ELSE <<>>
        slug == IF from_rc = <<>> /\ tile.anchor # <<>>
                THEN slug_of_path(tile.anchor[1], from_rc)
                ELSE from_rc
        title == IF tile.rc /\ tile.rc_title # <<>> THEN tile.rc_title
                 ELSE IF tile.img_alt # <<>> THEN tile.img_alt
                 ELSE tile.a_title
    IN  [slug |-> slug, title |-> title]

\* every tile kept, with or without a slug
Any_slug(slug) == TRUE

\* if not slug: continue
has_slug(slug) == slug # <<>>

RECURSIVE watchlist_items(_)
watchlist_items(tiles) ==
    IF tiles = <<>> THEN <<>>
    ELSE LET st == _extract_slug_and_title(Head(tiles))
         IN  (IF has_slug(st.slug)
              THEN <<[movie_id |-> st.slug,
                      display_name |-> IF st.title # <<>> THEN st.title ELSE st.slug]>>
              ELSE <<>>) \o watchlist_items(Tail(tiles))

\* parse_watchlist_page
parse_watchlist_page(resp) ==
    IF ~resp.html THEN <<>> ELSE watchlist_items(resp.tiles)

Hrefs == {v \in Vals : startswith_film(v)}
Titles == {<<>>, <<"Heat">>}

\* tiles with one attribute or the anchor free and the others missing or fixed
WatchlistTiles ==
    [rc : {TRUE}, item_slug : Vals, film_slug : {<<>>, <<"heat">>},
     target_link : {<<>>}, anchor : {<<>>}, rc_title : Titles,
     img_alt : {<<>>}, a_title : Titles]
    \cup [rc : {TRUE}, item_slug : {<<>>}, film_slug : Vals,
          target_link : {<<>>, <<"/", "film", "/", "heat", "/">>},
          anchor : {<<>>}, rc_title : {<<>>}, img_alt : Titles, a_title : {<<>>}]
    \cup [rc : {TRUE}, item_slug : {<<>>, <<"/", "film", "/">>}, film_slug : {<<>>},
          target_link : Vals, anchor : {<<>>, <<<<"/", "film", "/", "heat">>>>},
          rc_title : {<<>>}, img_alt : {<<>>}, a_title : {<<>>}]
    \cup [rc : BOOLEAN, item_slug : {<<>>}, film_slug : {<<>>}, target_link : {<<>>},
          anchor : {<<>>} \cup {<<h>> : h \in Hrefs}, rc_title : {<<>>},
          img_alt : {<<>>}, a_title : {<<>>}]
    \cup [rc : {FALSE}, item_slug : {<<"heat">>}, film_slug : {<<>>}, target_link : {<<>>},
          anchor : {<<>>}, rc_title : {<<"Heat">>}, img_alt : {<<>>}, a_title : {<<>>}]

\* a tile with a slug and a tile with none
FixtureWatchlistTiles ==
    {t \in WatchlistTiles :
        /\ t.rc /\ t.film_slug = <<>> /\ t.target_link = <<>> /\ t.anchor = <<>>
        /\ t.item_slug \in {<<>>, <<"heat">>}
        /\ t.rc_title = <<>> /\ t.a_title = <<>>}

WatchlistResponses ==
    {[kind |-> "watchlist", html |-> FALSE, tiles |-> <<>>]}
        \cup {[kind |-> "watchlist", html |-> TRUE, tiles |-> ts] :
                ts \in {<<>>} \cup {<<t>> : t \in WatchlistTiles}
                        \cup {<<a, b>> : a, b \in FixtureWatchlistTiles}}

ParseInit ==
    /\ response \in RatingsResponses \cup ReviewResponses \cup WatchlistResponses
    /\ parsed = <<>>
    /\ OnlyParse

ParseRatingsPage ==
    /\ response.kind = "ratings"
    /\ parsed = <<>>
    /\ parsed' = <<parse_ratings_page(response)>>
    /\ UNCHANGED <<response, notParse>>

ParseReviewDetail ==
    /\ response.kind = "review"
    /\ parsed = <<>>
    /\ parsed' = <<parse_review_detail(response)>>
    /\ UNCHANGED <<response, notParse>>

ParseWatchlistPage ==
    /\ response.kind = "watchlist"
    /\ parsed = <<>>
    /\ parsed' = <<parse_watchlist_page(response)>>
    /\ UNCHANGED <<response, notParse>>

ParseNext == ParseRatingsPage \/ ParseReviewDetail \/ ParseWatchlistPage

SpecParse == ParseInit /\ [][ParseNext]_vars

ValidRatings == {5 * k : k \in 1..10}

\* the valid rated-N class of a tile's only rating element, {} when it has none
TileRatedN(tile) ==
    IF Len(tile.spans) = 1
    THEN {n \in ValidRatings : \E i \in 1..Len(tile.spans[1].classes) :
                                   tile.spans[1].classes[i] = rated(n)}
    ELSE {}

\* C5: for every ratings-feed tile with a slug whose rating element carries
\* rated-N, N in {5,10,...,50}, parse_ratings_page emits rating_val N/10; a
\* tile with no rating yields -1; liked is true exactly when the tile carries
\* a liked marker.
C5_RatingsPageRecords ==
    (parsed # <<>> /\ response.kind = "ratings" /\ response.html) =>
        \A i \in 1..Len(response.tiles) :
            LET tile == response.tiles[i]
                hasSlug(t) == t.poster /\ (t.item_slug # "" \/ t.film_slug # "")
            IN  (\A j \in 1..Len(response.tiles) : hasSlug(response.tiles[j])) =>
                  /\ Len(parsed[1]) = Len(response.tiles)
                  /\ \A n \in TileRatedN(tile) : parsed[1][i].rating_val = n
                  /\ (tile.spans = <<>> /\ tile.vd = <<>>) =>
                        parsed[1][i].rating_val = NoRating
                  /\ parsed[1][i].liked = (tile.liked # {})

\* C6: every rating_val emitted by parse_ratings_page or parse_review_detail
\* is the sentinel -1 or a value in {0.5, 1.0, ..., 5.0}.
C6_RatingRange ==
    (parsed # <<>> /\ response.kind \in {"ratings", "review"}) =>
        \A i \in 1..Len(parsed[1]) :
            parsed[1][i].rating_val \in {NoRating} \cup ValidRatings

\* C17: every record of parse_ratings_page and of parse_watchlist_page has a
\* non-empty film identifier; a tile from which no slug can be taken gives no
\* record.
C17_NonEmptyMovieId ==
    parsed # <<>> =>
        /\ response.kind = "ratings" =>
                \A i \in 1..Len(parsed[1]) : parsed[1][i].movie_id # ""
        /\ response.kind = "watchlist" =>
                /\ \A i \in 1..Len(parsed[1]) : parsed[1][i].movie_id # <<>>
                /\ Len(parsed[1]) =
                     Cardinality({i \in 1..Len(response.tiles) :
                        _extract_slug_and_title(response.tiles[i]).slug # <<>>})

\* a watchlist tile whose data-target-link is "/film//heat", with an empty
\* slug segment, and which has no anchor, gave no record
C17_Witness ==
    /\ parsed = <<<<>>>>
    /\ response.kind = "watchlist"
    /\ response.html
    /\ Len(response.tiles) = 1
    /\ response.tiles[1].target_link = <<"/", "film", "/", "/">>
    /\ response.tiles[1].anchor = <<>>

----------------------------------------------------------------------------
(* get_mutuals                                                             *)

Range(s) == {s[i] : i \in 1..Len(s)}

\* sorted(S) of a set of usernames: its elements, ascending
RECURSIVE sorted(_)
sorted(S) ==
    IF S = {} THEN <<>>
    ELSE LET least == CHOOSE x \in S : \A y \in S : x <= y
         IN  <<least>> \o sorted(S \ {least})

\* an intersection written as a list comprehension over followers
Filter_get_mutuals(fs, gs) ==
    SelectSeq(fs, LAMBDA x : x \in Range(gs))

\* get_mutuals: sorted(set(followers) & set(following))
get_mutuals(fs, gs) == sorted(Range(fs) \cap Range(gs))

\* usernames are 1..NumNames
NumNames == 3

\* longest followers or following list
MaxPeople == 3

PeopleLists == Strings(1..NumNames, MaxPeople)

MutualInit ==
    /\ followers \in PeopleLists
    /\ following \in PeopleLists
    /\ mutuals = <<>>
    /\ OnlyMutual

GetMutuals ==
    /\ mutuals = <<>>
    /\ mutuals' = <<get_mutuals(followers, following)>>
    /\ UNCHANGED <<followers, following, notMutual>>

MutualNext == GetMutuals

SpecMutuals == MutualInit /\ [][MutualNext]_vars

\* C10: get_mutuals returns exactly the usernames present in both inputs,
\* each once, in ascending order, and leaves both input lists unchanged.
C10_Mutuals ==
    /\ [](mutuals # <<>> =>
            LET m == mutuals[1]
            IN  /\ Range(m) = Range(followers) \cap Range(following)
                /\ \A i, j \in 1..Len(m) : i < j => m[i] < m[j])
    /\ [][followers' = followers /\ following' = following]_vars

\* inputs with duplicates, out of order, sharing two usernames
C10_Witness ==
    /\ mutuals # <<>>
    /\ Len(mutuals[1]) = 2
    /\ followers = <<3, 1, 3>>
    /\ following = <<1, 3, 1>>

----------------------------------------------------------------------------
(* The likes feed crawl: get_all_likes_review_urls                         *)

\* pages the likes feed can have
MaxFeed == 3

\* the reviewers whose reviews the feed lists, in alphabetical order
Reviewers == <<"alice", "bob", "carol", "dave", "erin", "frank">>

\* A feed URL is [page, query]: the path of feed page `page`, and whether a
\* query string or fragment follows it.  A review URL is [path, query].
start_url == [page |-> 1, query |-> FALSE]

review(r, tail, q) == [path |-> <<r, "film", "heat">> \o tail, query |-> q]

\* the hrefs feed page k carries, in anchors or in raw text: the permalinks
\* of two reviews (neighbouring pages share one), one with a query string,
\* and the "likes" page of the first
PageHrefs(k) ==
    {review(Reviewers[k], <<>>, TRUE),
     review(Reviewers[k + 1], <<>>, FALSE),
     review(Reviewers[k], <<"likes">>, FALSE)}

\* REVIEW_URL_RE.search: a segment, then "film", then a slug
MatchesReviewUrl(u) ==
    \E i \in 1..(Len(u.path) - 2) : u.path[i + 1] = "film"

\* _extract_review_urls_from_likes_page
_extract_review_urls_from_likes_page(hrefs) ==
    {CanonUrl(h) : h \in {g \in hrefs : MatchesReviewUrl(g) /\ ~_is_likes_url(CanonUrl(g))}}

\* _find_next_page_url: the href of the first next-page link, joined to the
\* current URL; html.links lists the links in selector order
_find_next_page_url(html) ==
    IF html.links = <<>> THEN <<>> ELSE <<html.links[1]>>

\* review_urls = ... : the collected set replaced by the page's
Overwrite_review_urls(acc, found) == found

\* review_urls |= ...
Merge_review_urls(acc, found) == acc \cup found

\* the order of sorted() on the review URLs of Reviewers
UrlKey(u) ==
    10 * (CHOOSE i \in 1..Len(Reviewers) : Reviewers[i] = u.path[1]) + Len(u.path)

RECURSIVE sorted_urls(_)
sorted_urls(S) ==
    IF S = {} THEN <<>>
    ELSE LET least == CHOOSE x \in S : \A y \in S : UrlKey(x) <= UrlKey(y)
         IN  <<least>> \o sorted_urls(S \ {least})

FeedUrls == [page : 1..MaxFeed, query : BOOLEAN]

Htmls == [links : {<<>>} \cup {<<u>> : u \in FeedUrls}]

LikesInit ==
    /\ site \in [1..MaxFeed -> Htmls]
    /\ current = <<start_url>>
    /\ seen_pages = {}
    /\ review_urls = {}
    /\ likes_pc = "loop"
    /\ likes_log = <<>>
    /\ likes_result = <<>>
    /\ liked_reviews = <<>>
    /\ OnlyLikes

\* the while test holds: seen_pages.add(current), fetch_text is awaited
LikesFetch ==
    /\ likes_pc = "loop"
    /\ current # <<>>
    /\ current[1] \notin seen_pages
    /\ seen_pages' = seen_pages \cup {current[1]}
    /\ likes_pc' = "fetching"
    /\ UNCHANGED <<site, current, review_urls, likes_log, likes_result,
                   liked_reviews, notLikes>>

\* fetch_text returns the page: collect its review URLs, follow its next link
LikesPage ==
    /\ likes_pc = "fetching"
    /\ LET html == site[current[1].page]
           nxt == _find_next_page_url(html)
       IN  /\ review_urls' = Merge_review_urls(review_urls,
                  _extract_review_urls_from_likes_page(PageHrefs(current[1].page)))
           /\ current' = IF nxt # <<>> THEN <<CanonUrl(nxt[1])>> ELSE <<>>
           /\ likes_log' = Append(likes_log, [page |-> current[1].page, ok |-> TRUE])
    /\ likes_pc' = "loop"
    /\ UNCHANGED <<site, seen_pages, likes_result, liked_reviews, notLikes>>

\* fetch_text returns None (or an empty body): break, return what was collected
LikesPageAbsent ==
    /\ likes_pc = "fetching"
    /\ likes_log' = Append(likes_log, [page |-> current[1].page, ok |-> FALSE])
    /\ likes_result' = <<sorted_urls(review_urls)>>
    /\ likes_pc' = "done"
    /\ UNCHANGED <<site, current, seen_pages, review_urls, liked_reviews, notLikes>>

\* the while test fails: no next URL, or one already seen
LikesReturn ==
    /\ likes_pc = "loop"
    /\ IF current = <<>> THEN TRUE ELSE current[1] \in seen_pages
    /\ likes_result' = <<sorted_urls(review_urls)>>
    /\ likes_pc' = "done"
    /\ UNCHANGED <<site, current, seen_pages, review_urls, likes_log,
                   liked_reviews, notLikes>>

\* out[item["review_url"]] = item, then list(out.values()): a later item
\* takes the place of an earlier one with the same review_url
RECURSIVE dedupe_by_url(_, _)
dedupe_by_url(items, out) ==
    IF items = <<>> THEN out
    ELSE LET item == Head(items)
             same == {i \in 1..Len(out) : out[i].review_url = item.review_url}
         IN  dedupe_by_url(Tail(items),
                 IF same = {} THEN Append(out, item)
                 ELSE [i \in 1..Len(out) |-> IF i \in same THEN item ELSE out[i]])

\* parse_review_detail of each fetched review page, None left out; fetched
\* tells for which URLs fetch_text returned the page
RECURSIVE parsed_reviews(_, _)
parsed_reviews(urls, fetched) ==
    IF urls = <<>> THEN <<>>
    ELSE parse_review_detail([html |-> Head(urls) \in fetched, url |-> Head(urls),
                              spans |-> <<>>])
            \o parsed_reviews(Tail(urls), fetched)

\* get_user_liked_reviews after get_all_likes_review_urls returned: no URL
\* gives ([], "success"), else every URL is fetched, parsed and deduplicated
LikesHydrate ==
    /\ likes_pc = "done"
    /\ \E fetched \in SUBSET Range(likes_result[1]) :
        liked_reviews' =
            IF likes_result[1] = <<>> THEN Returned(<<>>, "success")
            ELSE Returned(dedupe_by_url(parsed_reviews(likes_result[1], fetched), <<>>),
                          "success")
    /\ likes_pc' = "hydrated"
    /\ UNCHANGED <<site, current, seen_pages, review_urls, likes_log,
                   likes_result, notLikes>>

LikesNext ==
    LikesFetch \/ LikesPage \/ LikesPageAbsent \/ LikesReturn \/ LikesHydrate

SpecLikes == LikesInit /\ [][LikesNext]_vars

\* every fetch_text call ends (it carries a timeout) and the loop goes on
SpecLikesFair == SpecLikes /\ WF_vars(LikesNext)

\* the review URLs of the pages whose fetch returned a page
CollectedFrom(log) ==
    UNION {_extract_review_urls_from_likes_page(PageHrefs(log[i].page)) :
             i \in {j \in 1..Len(log) : log[j].ok}}

\* C2: the likes crawl always terminates, also when the next-link chain leads
\* back to an already visited canonical URL, and it then returns the union of
\* the review URLs of every page fetched before.
C2_TerminatesWithUnion ==
    /\ <>(likes_pc = "done")
    /\ [](likes_pc = "done" =>
            /\ likes_result # <<>>
            /\ Range(likes_result[1]) = CollectedFrom(likes_log))

\* the crawl ended on a next link, carrying a query, to a page it had already
\* fetched, after fetching three pages
C2_Witness ==
    /\ likes_pc = "done"
    /\ current # <<>>
    /\ current[1] \in seen_pages
    /\ Len(likes_log) = 3
    /\ \A i \in 1..Len(likes_log) : likes_log[i].ok
    /\ site[likes_log[3].page].links[1].query

(***************************************************************************)
(* One crawl session: get_all_people (followers, following),               *)
(* get_user_ratings_enriched, get_watchlist_data, get_user_liked_reviews.  *)
(* Each opens one ClientSession over a TCPConnector, finds how many pages  *)
(* or URLs there are, gathers one fetch task per page and builds its       *)
(* result from the pages that arrived.                                     *)
(***************************************************************************)
MaxTasks == 7
MaxReviewed == 1

PeopleKinds == {"followers", "following"}
CrawlerKinds ==
    PeopleKinds \cup {"ratings", "watchlist", "liked_reviews", "profile"}
Pages == 1..MaxTasks

\* TCPConnector(limit=6): the connections one session holds at a time
connector_limit == 6
\* asyncio.Semaphore(6) around the review page fetches
semaphore_limit == 6

\* how a GET can end: with the body, with a failure before the response
\* arrived (connection refused, reset, timeout while connecting), or with a
\* failure while the body was read
FetchOutcomes == {"ok", "connect_error", "read_error"}

\* fetch of get_user_mutuals.py and fetch_text: the try wraps the request
\* and the read
fetch_people(outcome) == IF outcome = "ok" THEN "ok" ELSE "absent"

\* fetch of get_user_ratings.py and get_user_watchlist.py: the try is inside
\* the "async with session.get(...)", so only a failed read is caught
fetch_films(outcome) ==
    CASE outcome = "ok" -> "ok"
      [] outcome = "read_error" -> "absent"
      [] outcome = "connect_error" -> "raise"

fetch(kind, outcome) ==
    IF kind \in {"ratings", "watchlist"} THEN fetch_films(outcome)
    ELSE fetch_people(outcome)

Max(S) == CHOOSE x \in S : \A y \in S : y <= x

\* html: the numeric page-link labels and the page of the rel="last" link
get_page_count_from_html(html) ==
    IF html.labels # {} THEN Max(html.labels)
    ELSE IF html.last # <<>> THEN html.last[1]
    ELSE 1

\* get_page_count of data_processing/utils/utils.py: -1 for an unknown user,
\* the page count of the listing otherwise
PageCounts(most) == {-1} \cup 1..most

\* the site: what each page of a listing holds
PeoplePage(p) == {p, p + 1}
FilmsPage(p) == <<[movie_id |-> p], [movie_id |-> p + 1]>>
ReviewedPage(q) == {q}
ReviewDetail(p) == [review_url |-> p]

\* A fetched page: absent (None or empty), or carrying the not-found marker,
\* or a page with its pagination links
AbsentHtml == [absent |-> TRUE, not_found |-> FALSE, labels |-> {}, last |-> <<>>]
NotFoundHtml == [absent |-> FALSE, not_found |-> TRUE, labels |-> {}, last |-> <<>>]
PlainHtml == [absent |-> FALSE, not_found |-> FALSE, labels |-> {}, last |-> <<>>]

\* "not first_html" only
Only_absent(html) == html.absent

\* if not first_html ...: return; if b"Page not found" in first_html: return
page_missing(html) == html.absent \/ html.not_found

FirstHtmls ==
    {AbsentHtml, NotFoundHtml}
    \cup {[absent |-> FALSE, not_found |-> FALSE, labels |-> {n}, last |-> <<>>] :
            n \in 0..MaxTasks}
    \cup {[absent |-> FALSE, not_found |-> FALSE, labels |-> {}, last |-> l] :
            l \in {<<>>, <<0>>, <<2>>}}
    \cup {[absent |-> FALSE, not_found |-> FALSE, labels |-> {1, 2}, last |-> <<3>>]}

InFlightOf(pc, t) ==
    (IF pc \in {"page1", "discover", "reviews1", "last"} THEN 1 ELSE 0)
    + Cardinality({p \in DOMAIN t : t[p] = "inflight"})
InFlight == InFlightOf(crawl_pc, task)
Holders == Cardinality({p \in DOMAIN task : task[p] \in {"sem", "inflight"}})

\* the connector hands out a connection while fewer than limit are in use
Unlimited(n) == TRUE
ConnectorHasRoom(n) == n < connector_limit

\* one task more than there are pages or URLs
One_task_more(n) == [p \in Pages |-> IF p <= n + 1 THEN "waiting" ELSE "idle"]

\* one task per page, or per review URL
Tasks(n) == [p \in Pages |-> IF p <= n THEN "waiting" ELSE "idle"]

CrawlInit ==
    /\ OnlyCrawl
    /\ crawler \in CrawlerKinds
    /\ crawl_pc = "start"
    /\ first_html = AbsentHtml
    /\ num_pages = 0
    /\ task = [p \in Pages |-> "idle"]
    /\ issued = [p \in Pages |-> 0]
    /\ raised = FALSE
    /\ crawl_result = <<>>
    /\ profile_log = <<>>

\* the session opens and the crawl takes its first step: get_all_people
\* issues the GET of the base URL
CrawlStart ==
    /\ crawl_pc = "start"
    /\ crawl_pc' = CASE crawler \in PeopleKinds \cup {"profile"} -> "page1"
                     [] crawler \in {"ratings", "watchlist"} -> "count"
                     [] crawler = "liked_reviews" -> "discover"
    /\ issued' = IF crawler \in PeopleKinds THEN [issued EXCEPT ![1] = 1]
                 ELSE issued
    /\ UNCHANGED <<crawler, first_html, num_pages, task, raised, crawl_result,
                   profile_log, notCrawl>>

\* get_all_people: the first fetch of the base URL ends; an absent or
\* "Page not found" page ends the crawl, any other page gives the page count
\* and one task for the base URL again plus one for each of pages 2..count
GetFirstPage ==
    /\ crawl_pc = "page1"
    /\ crawler \in PeopleKinds
    /\ \E html \in FirstHtmls :
        /\ first_html' = html
        /\ IF page_missing(html)
           THEN /\ crawl_result' = Returned(<<>>, "none")
                /\ crawl_pc' = "done"
                /\ UNCHANGED <<num_pages, task>>
           ELSE /\ num_pages' = get_page_count_from_html(html)
                /\ task' = [p \in Pages |->
                              IF p = 1 \/ p \in 2..num_pages' THEN "waiting"
                              ELSE "idle"]
                /\ crawl_pc' = "gather"
                /\ UNCHANGED crawl_result
    /\ UNCHANGED <<crawler, issued, raised, profile_log, notCrawl>>

\* get_user_ratings_enriched: get_page_count of the ratings listing, then one
\* task per ratings page and, from get_user_reviewed_films_set, one per page
\* of the reviews listing
RatingsPageCount ==
    /\ crawl_pc = "count"
    /\ crawler = "ratings"
    /\ \E n \in PageCounts(MaxTasks - MaxReviewed), m \in PageCounts(MaxReviewed) :
        IF n = -1
        THEN /\ first_html' = NotFoundHtml
             /\ crawl_result' = Returned(<<>>, "user_not_found")
             /\ crawl_pc' = "done"
             /\ UNCHANGED <<num_pages, task>>
        ELSE /\ first_html' = PlainHtml
             /\ num_pages' = n
             /\ task' = Tasks(n + (IF m = -1 THEN 0 ELSE m))
             /\ crawl_pc' = "gather"
             /\ UNCHANGED crawl_result
    /\ UNCHANGED <<crawler, issued, raised, profile_log, notCrawl>>

\* get_watchlist_data: get_page_count, then one task per page
WatchlistPageCount ==
    /\ crawl_pc = "count"
    /\ crawler = "watchlist"
    /\ \E n \in PageCounts(MaxTasks) :
        IF n = -1
        THEN /\ first_html' = NotFoundHtml
             /\ crawl_result' = Returned(<<>>, "user_not_found")
             /\ crawl_pc' = "done"
             /\ UNCHANGED <<num_pages, task>>
        ELSE /\ first_html' = PlainHtml
             /\ num_pages' = n
             /\ task' = Tasks(n)
             /\ crawl_pc' = "gather"
             /\ UNCHANGED crawl_result
    /\ UNCHANGED <<crawler, issued, raised, profile_log, notCrawl>>

\* get_user_liked_reviews: get_all_likes_review_urls found n review URLs,
\* none when the first page of the likes feed is absent or a not-found page
DiscoverReviewUrls ==
    /\ crawl_pc = "discover"
    /\ \E n \in 0..MaxTasks, html \in {AbsentHtml, NotFoundHtml, PlainHtml} :
        /\ html # PlainHtml => n = 0
        /\ first_html' = html
        /\ IF n = 0
           THEN /\ crawl_result' = Returned(<<>>, "success")
                /\ crawl_pc' = "done"
                /\ UNCHANGED <<num_pages, task>>
           ELSE /\ num_pages' = n
                /\ task' = Tasks(n)
                /\ crawl_pc' = "gather"
                /\ UNCHANGED crawl_result
    /\ UNCHANGED <<crawler, issued, raised, profile_log, notCrawl>>

\* bounded_fetch enters "async with sem"
SemAcquire ==
    /\ crawl_pc = "gather"
    /\ crawler = "liked_reviews"
    /\ Holders < semaphore_limit
    /\ \E p \in Pages :
        /\ task[p] = "waiting"
        /\ task' = [task EXCEPT ![p] = "sem"]
    /\ UNCHANGED <<crawler, crawl_pc, first_html, num_pages, issued, raised,
                   crawl_result, profile_log, notCrawl>>

\* session.get takes a connection from the connector and sends the request
TaskStart ==
    /\ crawl_pc = "gather"
    /\ ConnectorHasRoom(InFlight)
    /\ \E p \in Pages :
        /\ task[p] = IF crawler = "liked_reviews" THEN "sem" ELSE "waiting"
        /\ task' = [task EXCEPT ![p] = "inflight"]
        /\ issued' = [issued EXCEPT ![p] = @ + 1]
    /\ UNCHANGED <<crawler, crawl_pc, first_html, num_pages, raised,
                   crawl_result, profile_log, notCrawl>>

\* a request ends; what fetch lets escape ends the gather and the crawl
TaskEnd ==
    /\ crawl_pc = "gather"
    /\ \E p \in Pages, outcome \in FetchOutcomes :
        /\ task[p] = "inflight"
        /\ IF fetch(crawler, outcome) = "raise"
           THEN /\ raised' = TRUE
                /\ crawl_pc' = "done"
                /\ task' = [task EXCEPT ![p] = "absent"]
           ELSE /\ task' = [task EXCEPT ![p] = fetch(crawler, outcome)]
                /\ UNCHANGED <<raised, crawl_pc>>
    /\ UNCHANGED <<crawler, first_html, num_pages, issued, crawl_result,
                   profile_log, notCrawl>>

\* every page taken, fetched or not
All_pages(t, lo, hi) == lo..hi

\* the pages whose fetch gave html
OkPages(t, lo, hi) == {p \in lo..hi : t[p] = "ok"}

\* chain.from_iterable over the parsed pages, in page order
RECURSIVE chain(_, _, _)
chain(t, p, n) ==
    IF p > n THEN <<>>
    ELSE (IF t[p] = "ok" THEN FilmsPage(p) ELSE <<>>) \o chain(t, p + 1, n)

RECURSIVE hydrate(_, _, _)
hydrate(t, p, n) ==
    IF p > n THEN <<>>
    ELSE (IF t[p] = "ok" THEN <<ReviewDetail(p)>> ELSE <<>>) \o hydrate(t, p + 1, n)

reviewed_set(t, n) == UNION {ReviewedPage(p - n) : p \in OkPages(t, n + 1, MaxTasks)}

has_review(films, reviewed) ==
    [i \in 1..Len(films) |->
        [movie_id |-> films[i].movie_id,
         has_review |-> films[i].movie_id \in reviewed]]

CrawlRecords(kind, t, n) ==
    CASE kind \in PeopleKinds ->
            sorted(UNION {PeoplePage(p) : p \in OkPages(t, 1, MaxTasks)})
      [] kind = "ratings" -> has_review(chain(t, 1, n), reviewed_set(t, n))
      [] kind = "watchlist" -> chain(t, 1, n)
      [] kind = "liked_reviews" -> hydrate(t, 1, n)

\* the gather is over: the crawl builds its result from the pages it has
GatherDone ==
    /\ crawl_pc = "gather"
    /\ \A p \in Pages : task[p] \in {"idle", "ok", "absent"}
    /\ crawl_result' = Returned(CrawlRecords(crawler, task, num_pages),
                                IF crawler \in PeopleKinds THEN "none"
                                ELSE "success")
    /\ crawl_pc' = "done"
    /\ UNCHANGED <<crawler, first_html, num_pages, task, issued, raised,
                   profile_log, notCrawl>>

\* get_user_profile: what the profile page, the first reviews page and the
\* last reviews page can be; display_name and reviews_written are what
\* parse_display_name_from_profile and parse_reviews_written_from_profile find
\* (<<>> for None), per_page what parse_review_items_count counts
ProfileHtmls ==
    [absent : {TRUE}, not_found : {FALSE}, labels : {{}}, last : {<<>>},
     display_name : {<<>>}, reviews_written : {<<>>}]
    \cup [absent : {FALSE}, not_found : {TRUE}, labels : {{}}, last : {<<>>},
          display_name : {<<>>}, reviews_written : {<<>>}]
    \cup [absent : {FALSE}, not_found : {FALSE}, labels : {{}}, last : {<<>>},
          display_name : {<<>>, <<"Ann">>}, reviews_written : {<<>>, <<0>>, <<12>>}]
MissingReviewsHtmls ==
    [absent : {TRUE}, not_found : {FALSE}, labels : {{}}, last : {<<>>}, per_page : {0}]
        \cup [absent : {FALSE}, not_found : {TRUE}, labels : {{}}, last : {<<>>},
              per_page : {0}]
ReviewsHtmls ==
    MissingReviewsHtmls
    \cup [absent : {FALSE}, not_found : {FALSE}, labels : {{}, {0}, {3}},
          last : {<<>>, <<2>>}, per_page : 0..2]
LastHtmls ==
    MissingReviewsHtmls
    \cup [absent : {FALSE}, not_found : {FALSE}, labels : {{}}, last : {<<>>},
          per_page : 0..2]

\* build_paged_url: the reviews listing itself for page <= 1
build_paged_url(page) == IF page <= 1 THEN <<"reviews">> ELSE <<"reviews", page>>

Profile(display_name, reviews_written) ==
    <<[display_name |-> display_name, reviews_written |-> reviews_written]>>

\* get_user_profile: the fetch of the profile page ends
GetProfilePage ==
    /\ crawl_pc = "page1"
    /\ crawler = "profile"
    /\ \E html \in ProfileHtmls :
        /\ profile_log' = <<[url |-> <<"profile">>, html |-> html]>>
        /\ IF page_missing(html)
           THEN /\ crawl_result' = Profile(<<>>, 0)
                /\ crawl_pc' = "done"
           ELSE IF html.reviews_written # <<>>
           THEN /\ crawl_result' = Profile(html.display_name, html.reviews_written[1])
                /\ crawl_pc' = "done"
           ELSE /\ crawl_pc' = "reviews1"
                /\ UNCHANGED crawl_result
    /\ UNCHANGED <<crawler, first_html, num_pages, task, issued, raised, notCrawl>>

\* get_reviews_written_count_from_reviews_pages: the fetch of the first
\* reviews page ends
GetReviewsFirstPage ==
    /\ crawl_pc = "reviews1"
    /\ \E html \in ReviewsHtmls :
        LET display_name == profile_log[1].html.display_name
        IN  /\ profile_log' = Append(profile_log, [url |-> <<"reviews">>, html |-> html])
            /\ IF page_missing(html)
               THEN /\ crawl_result' = Profile(display_name, 0)
                    /\ crawl_pc' = "done"
                    /\ UNCHANGED num_pages
               ELSE /\ num_pages' = get_page_count_from_html(html)
                    /\ IF html.per_page = 0
                       THEN /\ crawl_result' = Profile(display_name, 0)
                            /\ crawl_pc' = "done"
                       ELSE IF num_pages' = 1
                       THEN /\ crawl_result' = Profile(display_name, html.per_page)
                            /\ crawl_pc' = "done"
                       ELSE /\ crawl_pc' = "last"
                            /\ UNCHANGED crawl_result
    /\ UNCHANGED <<crawler, first_html, task, issued, raised, notCrawl>>

\* the fetch of the last reviews page ends
GetReviewsLastPage ==
    /\ crawl_pc = "last"
    /\ \E html \in LastHtmls :
        LET display_name == profile_log[1].html.display_name
            per_page == profile_log[2].html.per_page
        IN  /\ profile_log' = Append(profile_log,
                                     [url |-> build_paged_url(num_pages), html |-> html])
            /\ crawl_result' =
                 IF page_missing(html) THEN Profile(display_name, num_pages * per_page)
                 ELSE IF html.per_page = 0
                 THEN Profile(display_name, num_pages * per_page)
                 ELSE Profile(display_name, (num_pages - 1) * per_page + html.per_page)
    /\ crawl_pc' = "done"
    /\ UNCHANGED <<crawler, first_html, num_pages, task, issued, raised, notCrawl>>

CrawlNext ==
    \/ CrawlStart
    \/ GetFirstPage
    \/ RatingsPageCount
    \/ WatchlistPageCount
    \/ DiscoverReviewUrls
    \/ SemAcquire
    \/ TaskStart
    \/ TaskEnd
    \/ GatherDone
    \/ GetProfilePage
    \/ GetReviewsFirstPage
    \/ GetReviewsLastPage

SpecCrawl == CrawlInit /\ [][CrawlNext]_vars

\* C1: a page fetch that fails, by a network error or a timeout, gives the
\* crawl an absent page; no crawl ends by raising.
C1_NeverRaises == raised = FALSE

\* C3: once page 1 of a followers or following listing was fetched and gave
\* the page count N, the crawl issues one GET for each of the pages 2..N and
\* none for page 1 again; with N = 1 it issues no further GET.
C3_PageOneFetchedOnce ==
    (/\ crawler \in PeopleKinds
     /\ crawl_pc = "done"
     /\ num_pages >= 1) =>
        \A p \in Pages : issued[p] = IF p <= num_pages THEN 1 ELSE 0

\* C4: at no time does a session have more than 6 requests in flight.
C4_AtMostSixInFlight == InFlight <= 6

\* six requests are in flight and a seventh task waits for a connection
C4_Witness ==
    /\ InFlight = 6
    /\ \E p \in Pages : task[p] = "waiting"
    /\ crawler = "ratings"

----------------------------------------------------------------------------
(* The aggregator: get_user_film                                           *)

\* usernames are tried with up to MaxWord leading word characters, feeds
\* with up to MaxFilms records
MaxWord == 31
MaxFilms == 2

\* {1,30} of USERNAME_RE
username_max == 30

\* A username argument: whether it is a str, the number of characters of
\* [A-Za-z0-9_] it starts with, and the characters after them, the first of
\* which is not of that class.
WordLengths == {0, 1, username_max} \cup (username_max + 1)..MaxWord

Usernames ==
    [str : BOOLEAN, word : WordLengths,
     rest : {<<>>, <<"\n">>, <<"-">>, <<"-", "a">>, <<"\n", "a">>, <<"\n", "\n">>}]

\* "$" of a pattern compiled without re.MULTILINE: the end of the string, or
\* the position before a newline that ends the string
AtDollar(rest) == rest = <<>> \/ rest = <<"\n">>

\* USERNAME_RE.match(username)
USERNAME_RE(u) == u.word \in 1..username_max /\ AtDollar(u.rest)

\* a string of 1 to 30 characters, all of [A-Za-z0-9_]
ValidUsername(u) == u.str /\ u.word \in 1..username_max /\ u.rest = <<>>

FilmIds == {"heat", "ran"}

\* the records of the ratings feed and of the watchlist feed
RatingRecords ==
    [movie_id : FilmIds, rating_val : {NoRating, 35}, liked : BOOLEAN,
     has_review : {FALSE}]
        \cup [movie_id : FilmIds, rating_val : {35}, liked : {TRUE},
              has_review : {TRUE}]
WatchlistRecords == [movie_id : FilmIds, display_name : {"Heat"}]

RECURSIVE ListsOf(_, _)
ListsOf(S, n) ==
    IF n = 0 THEN {<<>>}
    ELSE LET shorter == ListsOf(S, n - 1)
         IN  shorter \cup {Append(l, x) : l \in {m \in shorter : Len(m) = n - 1}, x \in S}

\* what get_ratings_data and get_watchlist_data can return
RatingsData ==
    {[records |-> <<>>, status |-> "user_not_found"]}
        \cup {[records |-> l, status |-> "success"] : l \in ListsOf(RatingRecords, MaxFilms)}
WatchlistData ==
    {[records |-> <<>>, status |-> "user_not_found"]}
        \cup {[records |-> l, status |-> "success"] : l \in ListsOf(WatchlistRecords, MaxFilms)}

\* the status record of a ratings record; None is <<>>, a value v is <<v>>
watched_record(film) ==
    [movie_id |-> film.movie_id, watched |-> TRUE, in_watchlist |-> FALSE,
     rating_val |-> <<film.rating_val>>, liked |-> <<film.liked>>,
     has_review |-> film.has_review]

\* the status record of a watchlist record
watchlist_record(film) ==
    [movie_id |-> film.movie_id, watched |-> FALSE, in_watchlist |-> TRUE,
     rating_val |-> <<>>, liked |-> <<>>, has_review |-> FALSE]

\* one record per film: the watchlist flag set on the ratings record of the
\* same film, watchlist records kept for the other films only
Merged_user_film_records(films, watchlist) ==
    LET ids(l) == {l[i].movie_id : i \in 1..Len(l)}
    IN  [i \in 1..Len(films) |->
            [watched_record(films[i]) EXCEPT
                !.in_watchlist = films[i].movie_id \in ids(watchlist)]]
        \o SelectSeq([j \in 1..Len(watchlist) |-> watchlist_record(watchlist[j])],
                     LAMBDA r : r.movie_id \notin ids(films))

\* the two loops over films and watchlist
user_film_records(films, watchlist) ==
    [i \in 1..Len(films) |-> watched_record(films[i])]
        \o [j \in 1..Len(watchlist) |-> watchlist_record(watchlist[j])]

\* the ratings records returned although the watchlist crawl failed
Partial_aggregate(fd, wd) ==
    IF fd.status # "success" THEN Returned(<<>>, fd.status)
    ELSE IF wd.status # "success"
         THEN Returned(user_film_records(fd.records, <<>>), wd.status)
    ELSE Returned(user_film_records(fd.records, wd.records), "success")

\* get_user_film from the status tests on
aggregate(fd, wd) ==
    IF fd.status # "success" THEN Returned(<<>>, fd.status)
    ELSE IF wd.status # "success" THEN Returned(<<>>, wd.status)
    ELSE Returned(user_film_records(fd.records, wd.records), "success")

FilmInit ==
    /\ OnlyFilm
    /\ username \in Usernames
    /\ film_pc = "start"
    /\ started = {}
    /\ films_data = <<>>
    /\ watchlist_data = <<>>
    /\ user_film = <<>>

\* if not isinstance(username, str) or not USERNAME_RE.match(username)
ValidateUsername ==
    /\ film_pc = "start"
    /\ IF ~username.str \/ ~USERNAME_RE(username)
       THEN /\ user_film' = Returned(<<>>, "bad_username")
            /\ film_pc' = "returned"
       ELSE /\ film_pc' = "ratings"
            /\ UNCHANGED user_film
    /\ UNCHANGED <<username, started, films_data, watchlist_data, notFilm>>

\* get_ratings_data runs the ratings crawl, which returns or raises
GetRatingsData ==
    /\ film_pc = "ratings"
    /\ started' = started \cup {"ratings"}
    /\ \/ \E fd \in RatingsData :
            /\ films_data' = <<fd>>
            /\ film_pc' = "watchlist"
       \/ /\ film_pc' = "raised"
          /\ UNCHANGED films_data
    /\ UNCHANGED <<username, watchlist_data, user_film, notFilm>>

\* get_watchlist_data runs the watchlist crawl, which returns or raises
GetWatchlistData ==
    /\ film_pc = "watchlist"
    /\ started' = started \cup {"watchlist"}
    /\ \/ \E wd \in WatchlistData :
            /\ watchlist_data' = <<wd>>
            /\ film_pc' = "aggregate"
       \/ /\ film_pc' = "raised"
          /\ UNCHANGED watchlist_data
    /\ UNCHANGED <<username, films_data, user_film, notFilm>>

Aggregate ==
    /\ film_pc = "aggregate"
    /\ user_film' = aggregate(films_data[1], watchlist_data[1])
    /\ film_pc' = "returned"
    /\ UNCHANGED <<username, started, films_data, watchlist_data, notFilm>>

FilmNext == ValidateUsername \/ GetRatingsData \/ GetWatchlistData \/ Aggregate

SpecFilm == FilmInit /\ [][FilmNext]_vars

BothSucceeded ==
    /\ film_pc = "returned"
    /\ started = {"ratings", "watchlist"}
    /\ films_data[1].status = "success"
    /\ watchlist_data[1].status = "success"

\* C11: when both feeds succeed, get_user_film emits one status record per
\* ratings record (watched, not in the watchlist, with that record's rating,
\* liked and has_review), then one per watchlist record (not watched, in the
\* watchlist, no rating, no liked, has_review false); a film of both feeds
\* gives two records.
C11_OneRecordPerFeedRecord ==
    BothSucceeded =>
        LET films == films_data[1].records
            watchlist == watchlist_data[1].records
            out == user_film[1].records
        IN  /\ Len(out) = Len(films) + Len(watchlist)
            /\ \A i \in 1..Len(films) :
                /\ out[i].movie_id = films[i].movie_id
                /\ out[i].watched /\ ~out[i].in_watchlist
                /\ out[i].rating_val = <<films[i].rating_val>>
                /\ out[i].liked = <<films[i].liked>>
                /\ out[i].has_review = films[i].has_review
            /\ \A j \in 1..Len(watchlist) :
                LET r == out[Len(films) + j]
                IN  /\ r.movie_id = watchlist[j].movie_id
                    /\ ~r.watched /\ r.in_watchlist
                    /\ r.rating_val = <<>> /\ r.liked = <<>>
                    /\ ~r.has_review

\* both feeds list "heat", the ratings feed also "ran": three records
C11_Witness ==
    /\ BothSucceeded
    /\ Len(films_data[1].records) = 2
    /\ films_data[1].records[1].movie_id = "heat"
    /\ films_data[1].records[2].movie_id = "ran"
    /\ Len(watchlist_data[1].records) = 1
    /\ watchlist_data[1].records[1].movie_id = "heat"
    /\ Len(user_film[1].records) = 3

\* C13: get_user_film reports "success" only when both crawls reported
\* "success"; when one reported a failure it returns no records and that
\* failure status, the one of the ratings crawl when both failed.
C13_FailureStatusNoRecords ==
    (film_pc = "returned" /\ started = {"ratings", "watchlist"}) =>
        LET fs == films_data[1].status
            ws == watchlist_data[1].status
            out == user_film[1]
        IN  /\ out.status = "success" <=> (fs = "success" /\ ws = "success")
            /\ out.status # "success" =>
                /\ out.records = <<>>
                /\ out.status = IF fs # "success" THEN fs ELSE ws

\* the ratings crawl gave two records and the watchlist crawl reported
\* user_not_found
C13_Witness ==
    /\ film_pc = "returned"
    /\ started = {"ratings", "watchlist"}
    /\ Len(films_data[1].records) = 2
    /\ watchlist_data[1].status = "user_not_found"
    /\ user_film[1].status = "user_not_found"

\* C20: a username that is not a string of 1 to 30 characters of
\* [A-Za-z0-9_] gets ([], "bad_username") and starts neither crawl.
C20_InvalidUsernameRejected ==
    (~ValidUsername(username) /\ film_pc # "start") =>
        /\ started = {}
        /\ film_pc = "returned"
        /\ user_film = Returned(<<>>, "bad_username")

----------------------------------------------------------------------------
(* What a crawl session returns                                            *)

\* C12: when the page-1 fetch returns content carrying the not-found marker,
\* every feed crawler returns no records together with a status that is not
\* "success", so that the caller can tell a missing user from an empty feed.
C12_NotFoundHasOwnStatus ==
    (/\ crawler \in CrawlerKinds \ {"profile"}
     /\ crawl_pc = "done"
     /\ first_html.not_found) =>
        /\ crawl_result # <<>>
        /\ crawl_result[1].records = <<>>
        /\ crawl_result[1].status \notin {"success", "none"}

\* C14: no two records returned by the ratings crawl or by the watchlist
\* crawl share a movie_id, also when two fetched pages list the same film.
C14_NoDuplicateMovieId ==
    (crawler \in {"ratings", "watchlist"} /\ crawl_result # <<>>) =>
        LET records == crawl_result[1].records
        IN  \A i, j \in 1..Len(records) :
                i < j => records[i].movie_id # records[j].movie_id

\* C18: get_page_count_from_html returns an integer >= 1: the greatest
\* numeric page-link label, else the page of the rel=last link, else 1, also
\* when a label or the rel=last page is 0.
C18_PageCountAtLeastOne ==
    (/\ crawler \in PeopleKinds
     /\ crawl_pc \in {"gather", "done"}
     /\ ~first_html.absent /\ ~first_html.not_found) =>
        /\ num_pages >= 1
        /\ num_pages = IF first_html.labels # {} THEN Max(first_html.labels)
                       ELSE IF first_html.last # <<>> THEN first_html.last[1]
                       ELSE 1

\* C19: when the first page of a followers or following listing, the profile
\* page, or the first reviews page is absent or carries the not-found marker,
\* the crawl returns the empty result and fetches nothing more.
C19_MissingFirstPageShortCircuits ==
    /\ (/\ crawler \in PeopleKinds
        /\ crawl_pc = "done"
        /\ (first_html.absent \/ first_html.not_found)) =>
            /\ crawl_result = Returned(<<>>, "none")
            /\ issued = [p \in Pages |-> IF p = 1 THEN 1 ELSE 0]
    /\ (crawler = "profile" /\ crawl_pc = "done") =>
            /\ (profile_log[1].html.absent \/ profile_log[1].html.not_found) =>
                    /\ Len(profile_log) = 1
                    /\ crawl_result = Profile(<<>>, 0)
            /\ (/\ Len(profile_log) >= 2
                /\ (profile_log[2].html.absent \/ profile_log[2].html.not_found)) =>
                    /\ Len(profile_log) = 2
                    /\ crawl_result[1].reviews_written = 0

\* a followers crawl ended on a not-found first page
C19_Witness ==
    /\ crawler = "followers"
    /\ crawl_pc = "done"
    /\ first_html = NotFoundHtml
    /\ crawl_result = Returned(<<>>, "none")

----------------------------------------------------------------------------
(* What the liked-reviews crawl returns                                    *)

\* C15: no two records of get_user_liked_reviews share a review_url, every
\* review_url is canonical (no query, no fragment), and there are no more
\* records than distinct review URLs discovered.
C15_OneRecordPerCanonicalUrl ==
    liked_reviews # <<>> =>
        LET records == liked_reviews[1].records
        IN  /\ \A i, j \in 1..Len(records) :
                i < j => records[i].review_url # records[j].review_url
            /\ \A i \in 1..Len(records) : ~records[i].review_url.query
            /\ Len(records) <= Cardinality(review_urls)

\* two feed pages were fetched, which list one review twice (once with a
\* query string) and two more, and all three review pages were fetched
C15_Witness ==
    /\ liked_reviews # <<>>
    /\ Len(likes_log) = 2
    /\ \A i \in 1..2 : likes_log[i].ok
    /\ Cardinality(review_urls) = 3
    /\ Len(liked_reviews[1].records) = 3

EndsInLikes(u) == u.path # <<>> /\ u.path[Len(u.path)] = "likes"

\* C16: no URL whose path ends in "/likes", with or without a trailing
\* slash, is among the review URLs the likes-feed crawl returns, nor is it
\* the review_url of a record of get_user_liked_reviews.
C16_NoLikesUrl ==
    /\ likes_result # <<>> =>
            \A i \in 1..Len(likes_result[1]) : ~EndsInLikes(likes_result[1][i])
    /\ liked_reviews # <<>> =>
            \A i \in 1..Len(liked_reviews[1].records) :
                ~EndsInLikes(liked_reviews[1].records[i].review_url)

\* a feed page listing a review and the likes page of that review was
\* fetched, and the crawl returned a record for the review
C16_Witness ==
    /\ liked_reviews # <<>>
    /\ Len(likes_log) = 1
    /\ likes_log[1].ok
    /\ \E h \in PageHrefs(likes_log[1].page) : EndsInLikes(h)
    /\ Len(liked_reviews[1].records) = 2

----------------------------------------------------------------------------
(* The order and the outcome of the fetches of a crawl                     *)

\* C21: the liked-reviews crawl issues no review page fetch before the
\* discovery of the review URLs has ended, then fetches every discovered URL
\* exactly once; when discovery finds no URL it returns ([], "success")
\* without any review page fetch.
C21_DiscoveryThenOneFetchEach ==
    crawler = "liked_reviews" =>
        /\ crawl_pc \in {"start", "discover"} =>
                \A p \in Pages : issued[p] = 0 /\ task[p] = "idle"
        /\ \A p \in Pages : issued[p] <= (IF p <= num_pages THEN 1 ELSE 0)
        /\ crawl_pc = "done" =>
                \A p \in Pages : issued[p] = IF p <= num_pages THEN 1 ELSE 0
        /\ (crawl_pc = "done" /\ num_pages = 0) =>
                crawl_result = Returned(<<>>, "success")

\* three review URLs were discovered and fetched, one fetch failed
C21_Witness ==
    /\ crawler = "liked_reviews"
    /\ crawl_pc = "done"
    /\ num_pages = 3
    /\ task[2] = "absent"
    /\ Len(crawl_result[1].records) = 2

C24_EachPageOnceAbsentEnds ==
    /\ \A i, j \in 1..Len(likes_log) :
            i < j => likes_log[i].page # likes_log[j].page
    /\ \A i \in 1..Len(likes_log) :
            ~likes_log[i].ok =>
                /\ i = Len(likes_log)
                /\ likes_pc \in {"done", "hydrated"}
                /\ current = <<[page |-> likes_log[i].page, query |-> FALSE]>>
                /\ Range(likes_result[1]) = CollectedFrom(likes_log)
                /\ Cardinality(seen_pages) = Len(likes_log)

\* the first feed page was fetched and links to the second, whose fetch
\* failed: the crawl returned the two review URLs of the first page
C24_Witness ==
    /\ likes_pc = "done"
    /\ Len(likes_log) = 2
    /\ likes_log[1].ok /\ ~likes_log[2].ok
    /\ site[likes_log[2].page].links # <<>>
    /\ Len(likes_result[1]) = 2

----------------------------------------------------------------------------
(* get_mutuals_for_user: the followers crawl and the following crawl of    *)
(* one gather, each get_all_people with a ClientSession and a TCPConnector *)
(* of its own.  A session is kept by its counts: the tasks of its gather   *)
(* that wait for a connection and those whose GET is in flight.            *)

\* the tasks get_all_people builds: fetch(base), then one per page 2..n
people_tasks(n) == Cardinality({p \in Pages : p = 1 \/ p \in 2..n})

\* the requests a session has in flight: its first fetch, or tasks of its gather
SessionInFlight(s) == (IF s.pc = "page1" THEN 1 ELSE 0) + s.inflight

NewSession == [pc |-> "new", num_pages |-> 0, waiting |-> 0, inflight |-> 0]

PairInit ==
    /\ sessions = [k \in PeopleKinds |-> NewSession]
    /\ pair_pc = "gather"
    /\ OnlyPair

\* async with ClientSession(connector=TCPConnector(limit=6)), then the first
\* fetch of the base page
OpenSession(k) ==
    /\ pair_pc = "gather"
    /\ sessions[k].pc = "new"
    /\ ConnectorHasRoom(SessionInFlight(sessions[k]))
    /\ sessions' = [sessions EXCEPT ![k].pc = "page1"]
    /\ UNCHANGED <<pair_pc, notPair>>

\* the first fetch returns: a missing page ends the crawl, else the tasks
SessionFirstPage(k) ==
    /\ sessions[k].pc = "page1"
    /\ \E html \in FirstHtmls :
        sessions' = [sessions EXCEPT ![k] =
            IF page_missing(html)
            THEN [pc |-> "done", num_pages |-> 0, waiting |-> 0, inflight |-> 0]
            ELSE [pc |-> "gather",
                  num_pages |-> get_page_count_from_html(html),
                  waiting |-> people_tasks(get_page_count_from_html(html)),
                  inflight |-> 0]]
    /\ UNCHANGED <<pair_pc, notPair>>

\* a task of the gather gets a connection of its own session's connector
SessionTaskStart(k) ==
    /\ sessions[k].pc = "gather"
    /\ sessions[k].waiting > 0
    /\ ConnectorHasRoom(SessionInFlight(sessions[k]))
    /\ sessions' = [sessions EXCEPT ![k].waiting = @ - 1, ![k].inflight = @ + 1]
    /\ UNCHANGED <<pair_pc, notPair>>

\* its fetch returns, with the page or with None
SessionTaskEnd(k) ==
    /\ sessions[k].pc = "gather"
    /\ sessions[k].inflight > 0
    /\ sessions' = [sessions EXCEPT ![k].inflight = @ - 1]
    /\ UNCHANGED <<pair_pc, notPair>>

\* the gather of one crawl returns and its session closes
SessionGatherDone(k) ==
    /\ sessions[k].pc = "gather"
    /\ sessions[k].waiting = 0 /\ sessions[k].inflight = 0
    /\ sessions' = [sessions EXCEPT ![k].pc = "done"]
    /\ UNCHANGED <<pair_pc, notPair>>

\* both crawls returned: get_mutuals, then the return of the three lists
ReturnMutuals ==
    /\ pair_pc = "gather"
    /\ \A k \in PeopleKinds : sessions[k].pc = "done"
    /\ pair_pc' = "returned"
    /\ UNCHANGED <<sessions, notPair>>

PairNext ==
    \/ \E k \in PeopleKinds : OpenSession(k)
    \/ \E k \in PeopleKinds : SessionFirstPage(k)
    \/ \E k \in PeopleKinds : SessionTaskStart(k)
    \/ \E k \in PeopleKinds : SessionTaskEnd(k)
    \/ \E k \in PeopleKinds : SessionGatherDone(k)
    \/ ReturnMutuals

SpecMutualsCrawl == PairInit /\ [][PairNext]_vars

\* C23: each of the two concurrent crawls of get_mutuals_for_user has at most
\* 6 requests in flight, and the two together have at most 12.
C23_CeilingPerSession ==
    /\ \A k \in PeopleKinds : SessionInFlight(sessions[k]) <= 6
    /\ SessionInFlight(sessions["followers"])
       + SessionInFlight(sessions["following"]) <= 12

\* both crawls run with 6 requests in flight each, 12 together, and each has
\* a further task waiting for a connection of its own session
C23_Witness ==
    /\ pair_pc = "gather"
    /\ \A k \in PeopleKinds :
        /\ SessionInFlight(sessions[k]) = 6
        /\ sessions[k].waiting > 0

----------------------------------------------------------------------------
(* reviews_liked_from_user: the reviewers of the liked reviews of a user,  *)
(* counted.  The module global username is bound only by the __main__      *)
(* block, which calls reviews_liked_from_user(username) itself.            *)

MaxLiked == 2

Users == {"alice", "bob", "Dcsoeirvy"}
\* the reviewers the liked reviews name
LikedReviewers == {"carol", "dave"}

\* the records of a liked reviews feed, as far as their reviewer
LikedRecords == {[reviewer |-> r] : r \in LikedReviewers}
LikedFeeds == Strings(LikedRecords, MaxLiked)

\* Counter(list): each element of the list with the number of its occurrences
Counter(l) ==
    [x \in Range(l) |-> Cardinality({i \in 1..Len(l) : l[i] = x})]

\* the sum of the counts of a Counter
RECURSIVE total(_, _)
total(c, keys) ==
    IF keys = {} THEN 0
    ELSE LET x == CHOOSE y \in keys : TRUE
         IN c[x] + total(c, keys \ {x})

CountInit ==
    /\ user \in Users
    /\ \/ module_username = <<>>
       \/ module_username = <<"Dcsoeirvy">> /\ user = "Dcsoeirvy"
    /\ feeds \in [Users -> LikedFeeds]
    /\ counts_pc = "start"
    /\ crawled = <<>>
    /\ liked_data = <<>>
    /\ liked_counts = <<>>
    /\ OnlyCount

\* liked_reviews, status = get_liked_reviews_data(username): the name username
\* is the module global, a NameError while it is unbound
GetLikedReviewsData ==
    /\ counts_pc = "start"
    /\ IF module_username = <<>>
       THEN /\ counts_pc' = "raised"
            /\ UNCHANGED <<crawled, liked_data>>
       ELSE /\ crawled' = module_username
            /\ liked_data' = Returned(feeds[module_username[1]], "success")
            /\ counts_pc' = "crawled"
    /\ UNCHANGED <<user, module_username, feeds, liked_counts, notCount>>

\* if status: return Counter([review["reviewer"] ...]), True; else [], False
CountReviewers ==
    /\ counts_pc = "crawled"
    /\ liked_counts' =
         IF liked_data[1].status # ""
         THEN <<[counts |-> Counter([i \in 1..Len(liked_data[1].records) |->
                                        liked_data[1].records[i].reviewer]),
                 ok |-> TRUE]>>
         ELSE <<[counts |-> <<>>, ok |-> FALSE]>>
    /\ counts_pc' = "returned"
    /\ UNCHANGED <<user, module_username, feeds, crawled, liked_data, notCount>>

CountNext == GetLikedReviewsData \/ CountReviewers

SpecLikedCounts == CountInit /\ [][CountNext]_vars

\* C25: reviews_liked_from_user(user) crawls the feed of its argument and
\* returns the number of that user's liked review records per reviewer, the
\* counts summing to the number of records, paired with True; it does so
\* whatever the state outside the argument.
C25_CountsOfArgument ==
    /\ counts_pc # "raised"
    /\ crawled # <<>> => crawled = <<user>>
    /\ liked_counts # <<>> =>
        /\ liked_counts[1].ok
        /\ liked_counts[1].counts =
             [r \in {feeds[user][i].reviewer : i \in 1..Len(feeds[user])} |->
                Cardinality({i \in 1..Len(feeds[user]) :
                               feeds[user][i].reviewer = r})]
        /\ total(liked_counts[1].counts, DOMAIN liked_counts[1].counts)
             = Len(feeds[user])

====
